---- MODULE Spec2Model ----
(***************************************************************************)
(* Native-shell integration layer of the Open Sunsama desktop app          *)
(* (apps/desktop/src-tauri): the tray menu, the tray icon, the application *)
(* menu and the global shortcuts acting on the "main" webview window, and  *)
(* the settings / auto-launch commands.                                    *)
(***************************************************************************)
EXTENDS FiniteSets, Integers, Sequences, TLC

VARIABLES
    win,        \* the "main" webview window as the OS has it
    running,    \* FALSE once std::process::exit has been called
    exitCode,   \* status passed to std::process::exit, -1 while running
    pending,    \* detached open::that tasks spawned and not yet run, per URL
    last,       \* the last event: who handled it, the calls made, the state before
    store,      \* in-memory value of key "settings" in the store settings.json
    disk,       \* value of key "settings" as last saved to settings.json
    osAutoLaunch, \* the OS's auto-launch registration
    cmd,        \* the last command invoked from the UI and its result
    setup,      \* how far run() got: the setup closure's outcome, the shortcuts registered
    disp        \* callbacks dispatched and not yet run to completion

vars ==
    <<win, running, exitCode, pending, last, store, disk, osAutoLaunch, cmd, setup, disp>>

hostVars == <<setup, disp>>
shellVars == <<win, running, exitCode, pending, last, setup, disp>>
settingsVars == <<store, disk, osAutoLaunch, cmd>>

(***************************************************************************)
(* Bounds                                                                  *)
(***************************************************************************)
MaxPending == 1

(***************************************************************************)
(* The platform calls a handler makes on the window.  Each returns a       *)
(* Result; F is the set of calls the OS fails during one handler run.      *)
(* An effect carries the window, the calls made in order, the events and   *)
(* scripts delivered to the UI, and the calls that failed.                 *)
(***************************************************************************)
OsCalls == {"is_visible", "show", "hide", "set_focus", "emit", "eval"}
\* the calls each callback can make
TrayCalls == {"is_visible", "show", "hide", "set_focus", "emit"}
TrayIconCalls == {"is_visible", "show", "hide", "set_focus"}
MenuCalls == {"emit", "eval"}
ShortcutCalls == {"is_visible", "show", "hide", "set_focus", "emit"}

Eff0(w) ==
    [win |-> w, calls |-> <<>>, emits |-> <<>>, evals |-> <<>>,
     failed |-> {}, spawned |-> <<>>, exited |-> FALSE, code |-> -1]

Call(e, name, F) ==
    [e EXCEPT !.calls = Append(@, name),
              !.failed = IF name \in F THEN @ \cup {name} ELSE @]

\* window.show(): on success the window is visible; on failure nothing changes
show(e, F) ==
    LET e1 == Call(e, "show", F)
    IN  IF "show" \in F THEN e1 ELSE [e1 EXCEPT !.win.visible = TRUE]

\* window.hide(): on success the window is hidden and loses the focus
hide(e, F) ==
    LET e1 == Call(e, "hide", F)
    IN  IF "hide" \in F THEN e1
        ELSE [e1 EXCEPT !.win.visible = FALSE, !.win.focused = FALSE]

\* window.set_focus(): on success a visible window has the focus
set_focus(e, F) ==
    LET e1 == Call(e, "set_focus", F)
    IN  IF "set_focus" \in F THEN e1
        ELSE [e1 EXCEPT !.win.focused = e1.win.visible]

\* window.emit(event, payload): on success the UI receives the event once
emit(e, F, event, payload) ==
    LET e1 == Call(e, "emit", F)
    IN  IF "emit" \in F THEN e1
        ELSE [e1 EXCEPT !.emits = Append(@, [event |-> event, payload |-> payload])]

\* window.eval(script): on success the webview runs the script
eval(e, F, script) ==
    LET e1 == Call(e, "eval", F)
    IN  IF "eval" \in F THEN e1
        ELSE [e1 EXCEPT !.evals = Append(@, script)]

\* window.is_visible().unwrap_or(true)
is_visible_or_true(e, F) ==
    IF "is_visible" \in F THEN TRUE ELSE e.win.visible

\* window.is_visible().unwrap_or(false)
is_visible(e, F) ==
    IF "is_visible" \in F THEN FALSE ELSE e.win.visible

\* tauri::async_runtime::spawn(async { open::that(url) })
spawn(e, url) == [e EXCEPT !.calls = Append(@, "spawn"), !.spawned = Append(@, url)]

\* std::process::exit(status)
exit(e, status) ==
    [e EXCEPT !.calls = Append(@, "exit"), !.exited = TRUE, !.code = status]

\* app.get_webview_window("main") is Some(window)
get_webview_window(w) == w.exists

(***************************************************************************)
(* Tray menu: create_tray, on_menu_event (tray.rs)                         *)
(***************************************************************************)
tray_new_task(w, F) ==
    IF get_webview_window(w)
    THEN emit(set_focus(show(Eff0(w), F), F), F, "quick-add-task", "")
    ELSE Eff0(w)

\* as tray_today, hiding a window that is visible instead of raising it
tray_today_toggle(w, F) ==
    IF get_webview_window(w)
    THEN LET e == IF w.visible THEN hide(Eff0(w), F)
                  ELSE set_focus(show(Eff0(w), F), F)
         IN  emit(e, F, "navigate", "/app")
    ELSE Eff0(w)

tray_today(w, F) ==
    IF get_webview_window(w)
    THEN emit(set_focus(show(Eff0(w), F), F), F, "navigate", "/app")
    ELSE Eff0(w)

\* as tray_calendar, unwrapping the window
tray_calendar_unwrap(w, F) ==
    IF get_webview_window(w)
    THEN emit(set_focus(show(Eff0(w), F), F), F, "navigate", "/app/calendar")
    ELSE exit(Eff0(w), 101)

tray_calendar(w, F) ==
    IF get_webview_window(w)
    THEN emit(set_focus(show(Eff0(w), F), F), F, "navigate", "/app/calendar")
    ELSE Eff0(w)

\* as tray_show_hide, deciding on the visibility known before the last external change
tray_show_hide_stale(w, F) ==
    IF get_webview_window(w)
    THEN LET e == Call(Eff0(w), "is_visible", F)
             cached == IF last.src = "os" THEN last.pre.visible ELSE w.visible
         IN  IF cached THEN hide(e, F) ELSE set_focus(show(e, F), F)
    ELSE Eff0(w)

tray_show_hide(w, F) ==
    IF get_webview_window(w)
    THEN LET e == Call(Eff0(w), "is_visible", F)
         IN  IF is_visible(e, F) THEN hide(e, F) ELSE set_focus(show(e, F), F)
    ELSE Eff0(w)

\* as tray_settings, emitting only when show and set_focus succeeded
tray_settings_checked(w, F) ==
    IF get_webview_window(w)
    THEN LET e == set_focus(show(Eff0(w), F), F)
         IN  IF e.failed = {} THEN emit(e, F, "navigate", "/app/settings") ELSE e
    ELSE Eff0(w)

tray_settings(w, F) ==
    IF get_webview_window(w)
    THEN emit(set_focus(show(Eff0(w), F), F), F, "navigate", "/app/settings")
    ELSE Eff0(w)

\* as tray_quit, leaving with a failure status
tray_quit_status_1(w, F) == exit(Eff0(w), 1)

tray_quit(w, F) == exit(Eff0(w), 0)

tray_on_menu_event(id, w, F) ==
    CASE id = "new_task"  -> tray_new_task(w, F)
      [] id = "today"     -> tray_today(w, F)
      [] id = "calendar"  -> tray_calendar(w, F)
      [] id = "show_hide" -> tray_show_hide(w, F)
      [] id = "settings"  -> tray_settings(w, F)
      [] id = "quit"      -> tray_quit(w, F)
      [] OTHER            -> Eff0(w)

(***************************************************************************)
(* Tray icon: create_tray, on_tray_icon_event (tray.rs)                    *)
(***************************************************************************)
TrayIconEvents ==
    [type : {"Click"}, button : {"Left", "Right", "Middle"}, button_state : {"Up", "Down"}]
    \cup [type : {"DoubleClick"}, button : {"Left", "Right", "Middle"}, button_state : {"None"}]
    \cup [type : {"Enter", "Move", "Leave"}, button : {"None"}, button_state : {"None"}]

tray_icon_toggle(w, F) ==
    IF get_webview_window(w)
    THEN LET e == Call(Eff0(w), "is_visible", F)
         IN  IF is_visible(e, F) THEN hide(e, F) ELSE set_focus(show(e, F), F)
    ELSE Eff0(w)

\* as on_tray_icon_event, matching a click of any button in any state
on_tray_icon_event_any_click(event, w, F) ==
    IF event.type = "Click"
    THEN tray_icon_toggle(w, F)
    ELSE Eff0(w)

on_tray_icon_event(event, w, F) ==
    IF event.type = "Click" /\ event.button = "Left" /\ event.button_state = "Up"
    THEN tray_icon_toggle(w, F)
    ELSE Eff0(w)

(***************************************************************************)
(* Application menu: create_menu, app.on_menu_event (menu.rs)              *)
(***************************************************************************)
DocumentationUrl == "https://github.com/your-org/open-sunsama"
ReportIssueUrl == "https://github.com/your-org/open-sunsama/issues"
Urls == {DocumentationUrl, ReportIssueUrl}

menu_settings(w, F) ==
    IF get_webview_window(w)
    THEN emit(Eff0(w), F, "navigate", "/app/settings")
    ELSE Eff0(w)

menu_new_task(w, F) ==
    IF get_webview_window(w)
    THEN emit(Eff0(w), F, "quick-add-task", "")
    ELSE Eff0(w)

menu_today_view(w, F) ==
    IF get_webview_window(w)
    THEN emit(Eff0(w), F, "navigate", "/app")
    ELSE Eff0(w)

menu_calendar_view(w, F) ==
    IF get_webview_window(w)
    THEN emit(Eff0(w), F, "navigate", "/app/calendar")
    ELSE Eff0(w)

\* as menu_reload, raising the window before reloading it
menu_reload_show(w, F) ==
    IF get_webview_window(w)
    THEN eval(set_focus(show(Eff0(w), F), F), F, "window.location.reload()")
    ELSE Eff0(w)

menu_reload(w, F) ==
    IF get_webview_window(w)
    THEN eval(Eff0(w), F, "window.location.reload()")
    ELSE Eff0(w)

menu_documentation(w, F) == spawn(Eff0(w), DocumentationUrl)

menu_report_issue(w, F) == spawn(Eff0(w), ReportIssueUrl)

menu_on_menu_event(id, w, F) ==
    CASE id = "settings"      -> menu_settings(w, F)
      [] id = "new_task"      -> menu_new_task(w, F)
      [] id = "today_view"    -> menu_today_view(w, F)
      [] id = "calendar_view" -> menu_calendar_view(w, F)
      [] id = "reload"        -> menu_reload(w, F)
      [] id = "documentation" -> menu_documentation(w, F)
      [] id = "report_issue"  -> menu_report_issue(w, F)
      [] OTHER                -> Eff0(w)

(***************************************************************************)
(* Global shortcuts: with_handler and handle_global_shortcut (lib.rs)      *)
(***************************************************************************)
Shortcut(mods, key) == [mods |-> mods, key |-> key]

toggle_shortcut == Shortcut({"SUPER", "SHIFT"}, "KeyO")
new_task_shortcut == Shortcut({"SUPER", "SHIFT"}, "KeyT")
focus_shortcut == Shortcut({"SUPER", "SHIFT"}, "KeyF")

\* as shortcut_toggle, unwrapping the results of show and hide
shortcut_toggle_unwrap(w, F) ==
    IF get_webview_window(w)
    THEN LET e == Call(Eff0(w), "is_visible", F)
             r == IF is_visible(e, F) THEN hide(e, F) ELSE show(e, F)
         IN  IF r.failed \cap {"show", "hide"} # {} THEN exit(r, 101)
             ELSE IF is_visible(e, F) THEN r ELSE set_focus(r, F)
    ELSE Eff0(w)

shortcut_toggle(w, F) ==
    IF get_webview_window(w)
    THEN LET e == Call(Eff0(w), "is_visible", F)
         IN  IF is_visible(e, F) THEN hide(e, F) ELSE set_focus(show(e, F), F)
    ELSE Eff0(w)

\* as shortcut_new_task, emitting the event before and after raising the window
shortcut_new_task_twice(w, F) ==
    IF get_webview_window(w)
    THEN emit(set_focus(show(emit(Eff0(w), F, "quick-add-task", ""), F), F),
              F, "quick-add-task", "")
    ELSE Eff0(w)

shortcut_new_task(w, F) ==
    IF get_webview_window(w)
    THEN emit(set_focus(show(Eff0(w), F), F), F, "quick-add-task", "")
    ELSE Eff0(w)

\* as shortcut_focus, raising the window first
shortcut_focus_show(w, F) ==
    IF get_webview_window(w)
    THEN emit(set_focus(show(Eff0(w), F), F), F, "start-focus-mode", "")
    ELSE Eff0(w)

shortcut_focus(w, F) ==
    IF get_webview_window(w)
    THEN emit(Eff0(w), F, "start-focus-mode", "")
    ELSE Eff0(w)

\* as handle_global_shortcut, comparing the key code and not the modifiers
handle_global_shortcut_key_only(shortcut, w, F) ==
    IF shortcut.key = toggle_shortcut.key THEN shortcut_toggle(w, F)
    ELSE IF shortcut.key = new_task_shortcut.key THEN shortcut_new_task(w, F)
    ELSE IF shortcut.key = focus_shortcut.key THEN shortcut_focus(w, F)
    ELSE Eff0(w)

handle_global_shortcut(shortcut, w, F) ==
    IF shortcut = toggle_shortcut THEN shortcut_toggle(w, F)
    ELSE IF shortcut = new_task_shortcut THEN shortcut_new_task(w, F)
    ELSE IF shortcut = focus_shortcut THEN shortcut_focus(w, F)
    ELSE Eff0(w)

\* as with_handler, without the test of the event's state
with_handler_any_state(shortcut, state, w, F) ==
    handle_global_shortcut(shortcut, w, F)

with_handler(shortcut, state, w, F) ==
    IF state = "Pressed" THEN handle_global_shortcut(shortcut, w, F) ELSE Eff0(w)

(***************************************************************************)
(* Inputs                                                                  *)
(***************************************************************************)
TrayIds == {"new_task", "today", "calendar", "show_hide", "settings", "quit"}
MenuIds == {"settings", "new_task", "today_view", "calendar_view", "reload",
            "documentation", "report_issue"}
\* item identifiers a menu event can carry, known to an adapter or not
ItemIds == TrayIds \cup MenuIds \cup {"about", "check_updates"}

Shortcuts ==
    {toggle_shortcut, new_task_shortcut, focus_shortcut,
     Shortcut({"SUPER", "SHIFT"}, "KeyX"), Shortcut({"SUPER"}, "KeyO"),
     Shortcut({"CONTROL", "SHIFT"}, "KeyT")}
ShortcutStates == {"Pressed", "Released"}

WinStates ==
    {w \in [exists : BOOLEAN, visible : BOOLEAN, focused : BOOLEAN] :
        /\ w.focused => w.visible
        /\ w.visible => w.exists}

NoMods == {}

Event(src, id, mods, state, button, e) ==
    [src |-> src, id |-> id, mods |-> mods, state |-> state, button |-> button,
     calls |-> e.calls, emits |-> e.emits, evals |-> e.evals,
     failed |-> e.failed, pre |-> win]

Spawns(e, u) == Cardinality({i \in 1..Len(e.spawned) : e.spawned[i] = u})

\* one callback of the event loop, run to completion
Handle(src, id, mods, state, button, e) ==
    /\ running
    /\ \A u \in Urls : pending[u] + Spawns(e, u) <= MaxPending
    /\ win' = e.win
    /\ running' = ~e.exited
    /\ exitCode' = e.code
    /\ pending' = [u \in Urls |-> pending[u] + Spawns(e, u)]
    /\ last' = Event(src, id, mods, state, button, e)
    /\ UNCHANGED settingsVars
    /\ UNCHANGED hostVars

TrayMenuEvent ==
    \E id \in ItemIds, F \in SUBSET TrayCalls :
        Handle("tray", id, NoMods, "", "", tray_on_menu_event(id, win, F))

TrayIconEvent ==
    \E ev \in TrayIconEvents, F \in SUBSET TrayIconCalls :
        Handle("tray_icon", ev.type, NoMods, ev.button_state, ev.button,
               on_tray_icon_event(ev, win, F))

MenuEvent ==
    \E id \in ItemIds, F \in SUBSET MenuCalls :
        Handle("menu", id, NoMods, "", "", menu_on_menu_event(id, win, F))

ShortcutEvent ==
    \E sc \in Shortcuts, st \in ShortcutStates, F \in SUBSET ShortcutCalls :
        Handle("shortcut", sc.key, sc.mods, st, "", with_handler(sc, st, win, F))

\* a detached open::that task runs; its result is dropped
OpenTask ==
    \E u \in Urls :
        /\ running
        /\ pending[u] > 0
        /\ pending' = [pending EXCEPT ![u] = @ - 1]
        /\ last' = Event("task", u, NoMods, "", "", Eff0(win))
        /\ UNCHANGED <<win, running, exitCode>>
        /\ UNCHANGED settingsVars
        /\ UNCHANGED hostVars

(***************************************************************************)
(* The environment: the user or the OS changes the window without going    *)
(* through a handler.                                                      *)
(***************************************************************************)
External(what, w) ==
    /\ running
    /\ win.exists
    /\ w # win
    /\ win' = w
    /\ last' = Event("os", what, NoMods, "", "", Eff0(win))
    /\ UNCHANGED <<running, exitCode, pending>>
    /\ UNCHANGED settingsVars
    /\ UNCHANGED hostVars

ExternalShow == External("show", [win EXCEPT !.visible = TRUE])

ExternalHide == External("hide", [win EXCEPT !.visible = FALSE, !.focused = FALSE])

ExternalFocus == win.visible /\ External("focus", [win EXCEPT !.focused = TRUE])

ExternalBlur == External("blur", [win EXCEPT !.focused = FALSE])

WindowDestroyed ==
    External("destroy", [exists |-> FALSE, visible |-> FALSE, focused |-> FALSE])

(***************************************************************************)
(* Startup: run, its setup closure and register_global_shortcuts (lib.rs). *)
(* F is the set of setup calls the OS fails.                               *)
(***************************************************************************)
SetupCalls ==
    {"create_tray", "create_menu", "register_toggle", "register_new_task",
     "register_focus"}

\* the status of a process that ends in a panic
PanicStatus == 101

\* register(shortcut_toggle)?; register(shortcut_new_task)?; register(shortcut_focus)?
register_global_shortcuts(F) ==
    IF "register_toggle" \in F
    THEN [ok |-> FALSE, registered |-> {}]
    ELSE IF "register_new_task" \in F
    THEN [ok |-> FALSE, registered |-> {toggle_shortcut}]
    ELSE IF "register_focus" \in F
    THEN [ok |-> FALSE, registered |-> {toggle_shortcut, new_task_shortcut}]
    ELSE [ok |-> TRUE,
          registered |-> {toggle_shortcut, new_task_shortcut, focus_shortcut}]

\* the setup closure: create_tray(app)?; create_menu(app)?; register_global_shortcuts(app)?
setup_closure(F) ==
    IF "create_tray" \in F THEN [ok |-> FALSE, registered |-> {}, made |-> {}]
    ELSE IF "create_menu" \in F
    THEN [ok |-> FALSE, registered |-> {}, made |-> {"tray"}]
    ELSE LET r == register_global_shortcuts(F)
         IN  [ok |-> r.ok, registered |-> r.registered, made |-> {"tray", "menu"}]

\* the two sources of a toggle: the tray's callbacks, the shortcut's handler
Threads == {"tray", "shortcut"}

\* no callback dispatched
Idle ==
    [start |-> FALSE,
     thr |-> [t \in Threads |-> [pc |-> "idle", seen |-> FALSE, failed |-> {}]]]

NotStarted == [pc |-> "init", registered |-> {}, made |-> {}, rejected |-> {}]
Started ==
    [pc |-> "running",
     registered |-> {toggle_shortcut, new_task_shortcut, focus_shortcut},
     made |-> {"tray", "menu"}, rejected |-> {}]

\* run(): the builder runs the setup closure; .expect panics when it fails
Setup ==
    \E F \in SUBSET SetupCalls :
        LET r == setup_closure(F)
        IN  /\ setup.pc = "init"
            /\ setup' = [pc |-> IF r.ok THEN "running" ELSE "failed",
                         registered |-> r.registered, made |-> r.made,
                         rejected |-> F]
            /\ running' = r.ok
            /\ exitCode' = IF r.ok THEN -1 ELSE PanicStatus
            /\ UNCHANGED <<win, pending, last, disp>>
            /\ UNCHANGED settingsVars

(***************************************************************************)
(* Two toggles dispatched at once.  A toggle callback makes two calls on   *)
(* the window handle, the query and then the act on what the query         *)
(* returned; the callbacks hold no lock over the pair.                     *)
(***************************************************************************)
ToggleCalls == {"is_visible", "show", "hide", "set_focus"}

\* window.is_visible().unwrap_or(false)
toggle_query(w, F) == is_visible(Call(Eff0(w), "is_visible", F), F)

\* if visible { hide } else { show; set_focus }, on the window as it is now
toggle_act(w, seen, F) ==
    IF seen THEN hide(Eff0(w), F) ELSE set_focus(show(Eff0(w), F), F)

\* a toggle is handed to its callback
Dispatch(t) ==
    \E F \in SUBSET ToggleCalls :
        /\ running
        /\ disp.thr[t].pc = "idle"
        /\ disp' = [disp EXCEPT !.thr[t] = [pc |-> "dispatched", seen |-> FALSE,
                                            failed |-> F]]
        /\ UNCHANGED <<win, running, exitCode, pending, last, setup>>
        /\ UNCHANGED settingsVars

\* the callback's first call: the query
ToggleQuery(t) ==
    /\ disp.thr[t].pc = "dispatched"
    /\ get_webview_window(win)
    /\ disp' = [disp EXCEPT !.thr[t].pc = "queried",
                            !.thr[t].seen = toggle_query(win, disp.thr[t].failed)]
    /\ UNCHANGED <<win, running, exitCode, pending, last, setup>>
    /\ UNCHANGED settingsVars

\* the callback's remaining calls: hide, or show and set_focus
ToggleAct(t) ==
    /\ disp.thr[t].pc = "queried"
    /\ win' = toggle_act(win, disp.thr[t].seen, disp.thr[t].failed).win
    /\ disp' = [disp EXCEPT !.thr[t].pc = "done"]
    /\ UNCHANGED <<running, exitCode, pending, last, setup>>
    /\ UNCHANGED settingsVars

(***************************************************************************)
(* JSON values (serde_json::Value) as the store holds them                 *)
(***************************************************************************)
MaxArrayLen == 2

JNull == [t |-> "null", b |-> FALSE, s |-> ""]
JBool(b) == [t |-> "bool", b |-> b, s |-> ""]
JString(s) == [t |-> "string", b |-> FALSE, s |-> s]

Scalars == {JNull, JBool(TRUE), JBool(FALSE), JString("dark")}

\* the fields of AppSettings in declaration order
Fields == <<"theme", "auto_launch", "minimize_to_tray", "global_shortcuts_enabled">>
FieldNames == {Fields[i] : i \in 1..Len(Fields)}

NoObject == [f \in {} |-> JNull]
JObject(o) == [k |-> "object", o |-> o, a |-> <<>>, v |-> JNull]
JArray(a) == [k |-> "array", o |-> NoObject, a |-> a, v |-> JNull]
JScalar(v) == [k |-> "scalar", o |-> NoObject, a |-> <<>>, v |-> v]

Objects == UNION {[D -> Scalars] : D \in SUBSET FieldNames}
Arrays == UNION {[1..n -> Scalars] : n \in 0..MaxArrayLen}

JsonValues ==
    {JObject(o) : o \in Objects} \cup {JArray(a) : a \in Arrays}
        \cup {JScalar(v) : v \in Scalars}

None == [some |-> FALSE, value |-> JScalar(JNull)]
Some(value) == [some |-> TRUE, value |-> value]

(***************************************************************************)
(* AppSettings and its serde implementation (settings.rs)                  *)
(***************************************************************************)
Themes == {"", "dark"}

AppSettings ==
    [theme : Themes, auto_launch : BOOLEAN, minimize_to_tray : BOOLEAN,
     global_shortcuts_enabled : BOOLEAN]

\* #[derive(Default)]
AppSettingsDefault ==
    [theme |-> "", auto_launch |-> FALSE, minimize_to_tray |-> FALSE,
     global_shortcuts_enabled |-> FALSE]

\* the JSON type a field deserializes from: String for theme, bool for the rest
FieldType(f) == IF f = "theme" THEN "string" ELSE "bool"

\* the struct built from the fields that are there; the others take their default
Build(o) ==
    [theme |-> IF "theme" \in DOMAIN o THEN o["theme"].s ELSE "",
     auto_launch |-> IF "auto_launch" \in DOMAIN o THEN o["auto_launch"].b ELSE FALSE,
     minimize_to_tray |->
        IF "minimize_to_tray" \in DOMAIN o THEN o["minimize_to_tray"].b ELSE FALSE,
     global_shortcuts_enabled |->
        IF "global_shortcuts_enabled" \in DOMAIN o
        THEN o["global_shortcuts_enabled"].b ELSE FALSE]

ParseErr == [ok |-> FALSE, val |-> AppSettingsDefault]
ParseOk(val) == [ok |-> TRUE, val |-> val]

\* #[derive(Deserialize)] visit_map: a key that is absent takes #[serde(default)],
\* a key of the wrong type fails the whole value, other keys are ignored
visit_map(o) ==
    IF \E f \in DOMAIN o \cap FieldNames : o[f].t # FieldType(f)
    THEN ParseErr
    ELSE ParseOk(Build(o))

Index(f) == CHOOSE i \in 1..Len(Fields) : Fields[i] = f

\* #[derive(Deserialize)] visit_seq: elements are the fields in declaration
\* order, an element that is not there takes #[serde(default)], a trailing
\* element is an invalid length
visit_seq(a) ==
    IF Len(a) > Len(Fields) THEN ParseErr
    ELSE IF \E i \in 1..Len(a) : a[i].t # FieldType(Fields[i]) THEN ParseErr
    ELSE ParseOk(Build([f \in {Fields[i] : i \in 1..Len(a)} |-> a[Index(f)]]))

\* serde_json::from_value::<AppSettings>(value)
from_value(value) ==
    CASE value.k = "object" -> visit_map(value.o)
      [] value.k = "array"  -> visit_seq(value.a)
      [] OTHER              -> ParseErr

unwrap_or_default(r) == IF r.ok THEN r.val ELSE AppSettingsDefault

\* serde_json::to_value(&settings): #[derive(Serialize)] writes every field
to_value(settings) ==
    JObject([f \in FieldNames |->
                IF f = "theme" THEN JString(settings.theme)
                ELSE JBool(settings[f])])

(***************************************************************************)
(* Commands (commands/settings.rs).  F is the set of platform calls that   *)
(* fail during one command.                                                *)
(***************************************************************************)
CmdCalls == {"is_enabled", "enable", "disable", "store", "save"}

Ok == [ok |-> TRUE, err |-> "", bool |-> FALSE, settings |-> AppSettingsDefault]
OkBool(b) == [Ok EXCEPT !.bool = b]
OkSettings(x) == [Ok EXCEPT !.settings = x]
Err(msg) == [ok |-> FALSE, err |-> msg, bool |-> FALSE, settings |-> AppSettingsDefault]

\* the outcome of a command: its result and the state it leaves
Out(res, st, dk, al) == [res |-> res, store |-> st, disk |-> dk, al |-> al]

\* as get_auto_launch, answering with the value last requested of set_auto_launch
get_auto_launch_requested(st, dk, al, F) ==
    IF "is_enabled" \in F
    THEN Out(Err("Failed to get auto-launch status"), st, dk, al)
    ELSE Out(OkBool(IF cmd.name = "set_auto_launch" THEN cmd.enabled ELSE al), st, dk, al)

get_auto_launch(st, dk, al, F) ==
    IF "is_enabled" \in F
    THEN Out(Err("Failed to get auto-launch status"), st, dk, al)
    ELSE Out(OkBool(al), st, dk, al)

set_auto_launch(st, dk, al, enabled, F) ==
    IF enabled
    THEN IF "enable" \in F
         THEN Out(Err("Failed to enable auto-launch"), st, dk, al)
         ELSE Out(Ok, st, dk, TRUE)
    ELSE IF "disable" \in F
         THEN Out(Err("Failed to disable auto-launch"), st, dk, al)
         ELSE Out(Ok, st, dk, FALSE)

\* as get_settings, propagating a value that does not deserialize as an error
get_settings_strict(st, dk, al, F) ==
    IF "store" \in F
    THEN Out(Err("Failed to open store"), st, dk, al)
    ELSE IF st.some /\ ~from_value(st.value).ok
         THEN Out(Err("Failed to parse settings"), st, dk, al)
         ELSE Out(OkSettings(IF st.some THEN from_value(st.value).val
                             ELSE AppSettingsDefault), st, dk, al)

get_settings(st, dk, al, F) ==
    IF "store" \in F
    THEN Out(Err("Failed to open store"), st, dk, al)
    ELSE LET settings == IF st.some
                         THEN unwrap_or_default(from_value(st.value))
                         ELSE AppSettingsDefault
         IN  Out(OkSettings(settings), st, dk, al)

\* as set_settings, putting the old value back when the save fails
set_settings_rollback(st, dk, al, settings, F) ==
    IF "store" \in F
    THEN Out(Err("Failed to open store"), st, dk, al)
    ELSE LET value == to_value(settings)
         IN  IF "save" \in F
             THEN Out(Err("Failed to save settings"), st, dk, al)
             ELSE Out(Ok, Some(value), Some(value), al)

set_settings(st, dk, al, settings, F) ==
    IF "store" \in F
    THEN Out(Err("Failed to open store"), st, dk, al)
    ELSE LET value == to_value(settings)
         IN  IF "save" \in F
             THEN Out(Err("Failed to save settings"), Some(value), dk, al)
             ELSE Out(Ok, Some(value), Some(value), al)

Summary(c) ==
    [name |-> c.name, ok |-> c.res.ok, enabled |-> c.enabled,
     settings |-> c.settings, failed |-> c.failed]

NoCmd ==
    [name |-> "none", enabled |-> FALSE, settings |-> AppSettingsDefault,
     failed |-> {}, res |-> Ok, preAl |-> FALSE,
     prev |-> [name |-> "none", ok |-> TRUE, enabled |-> FALSE,
               settings |-> AppSettingsDefault, failed |-> {}]]

\* one command invoked from the UI
Invoke(name, enabled, settings, F, out) ==
    /\ store' = out.store
    /\ disk' = out.disk
    /\ osAutoLaunch' = out.al
    /\ cmd' = [name |-> name, enabled |-> enabled, settings |-> settings,
               failed |-> F, res |-> out.res, preAl |-> osAutoLaunch,
               prev |-> Summary(cmd)]
    /\ UNCHANGED shellVars

GetAutoLaunch ==
    \E F \in SUBSET {"is_enabled"} :
        Invoke("get_auto_launch", FALSE, AppSettingsDefault, F,
               get_auto_launch(store, disk, osAutoLaunch, F))

SetAutoLaunch ==
    \E enabled \in BOOLEAN :
      \E F \in SUBSET {IF enabled THEN "enable" ELSE "disable"} :
        Invoke("set_auto_launch", enabled, AppSettingsDefault, F,
               set_auto_launch(store, disk, osAutoLaunch, enabled, F))

GetSettings ==
    \E F \in SUBSET {"store"} :
        Invoke("get_settings", FALSE, AppSettingsDefault, F,
               get_settings(store, disk, osAutoLaunch, F))

\* the settings the UI saves
SettingsInputs ==
    {AppSettingsDefault,
     [AppSettingsDefault EXCEPT !.auto_launch = TRUE],
     [AppSettingsDefault EXCEPT !.theme = "dark", !.minimize_to_tray = TRUE],
     [theme |-> "dark", auto_launch |-> TRUE, minimize_to_tray |-> TRUE,
      global_shortcuts_enabled |-> TRUE]}

SetSettings ==
    \E settings \in SettingsInputs, F \in {{}, {"store"}, {"save"}} :
        Invoke("set_settings", FALSE, settings, F,
               set_settings(store, disk, osAutoLaunch, settings, F))

\* the user changes the login items in the OS settings
ExternalAutoLaunch ==
    /\ osAutoLaunch' = ~osAutoLaunch
    /\ cmd' = [NoCmd EXCEPT !.name = "os", !.preAl = osAutoLaunch, !.prev = Summary(cmd)]
    /\ UNCHANGED <<store, disk>>
    /\ UNCHANGED shellVars

(***************************************************************************)
(* Specifications                                                          *)
(***************************************************************************)
NoEvent ==
    [src |-> "none", id |-> "", mods |-> NoMods, state |-> "", button |-> "",
     calls |-> <<>>, emits |-> <<>>, evals |-> <<>>, failed |-> {},
     pre |-> [exists |-> TRUE, visible |-> FALSE, focused |-> FALSE]]

ShellInit ==
    /\ win \in {w \in WinStates : w.exists}
    /\ running = TRUE
    /\ exitCode = -1
    /\ pending = [u \in Urls |-> 0]
    /\ last = [NoEvent EXCEPT !.pre = win]
    /\ setup = Started
    /\ disp = Idle

\* stored values the commands start from: nothing, saved settings, and
\* values that are not settings
Stored ==
    {None, Some(JScalar(JNull)),
     Some(to_value([AppSettingsDefault EXCEPT !.theme = "dark", !.auto_launch = TRUE])),
     Some(JObject([f \in {"theme", "auto_launch"} |-> JBool(TRUE)])),
     Some(JObject([f \in {"minimize_to_tray"} |-> JBool(TRUE)]))}

SettingsInit ==
    /\ store \in Stored
    /\ disk = store
    /\ osAutoLaunch \in BOOLEAN
    /\ cmd = NoCmd

\* the shell: tray, menu and shortcut events on the window
Init ==
    /\ ShellInit
    /\ store = None /\ disk = None /\ osAutoLaunch = FALSE /\ cmd = NoCmd

Next ==
    \/ TrayMenuEvent
    \/ TrayIconEvent
    \/ MenuEvent
    \/ ShortcutEvent
    \/ OpenTask
    \/ ExternalShow
    \/ ExternalHide
    \/ ExternalFocus
    \/ ExternalBlur
    \/ WindowDestroyed

Spec == Init /\ [][Next]_vars

\* the commands: settings and auto-launch
ShellIdle ==
    /\ win = [exists |-> TRUE, visible |-> TRUE, focused |-> TRUE]
    /\ running = TRUE /\ exitCode = -1
    /\ pending = [u \in Urls |-> 0]
    /\ last = [NoEvent EXCEPT !.pre = win]
    /\ setup = Started
    /\ disp = Idle

InitSettings == SettingsInit /\ ShellIdle

NextSettings ==
    \/ GetAutoLaunch
    \/ SetAutoLaunch
    \/ GetSettings
    \/ SetSettings
    \/ ExternalAutoLaunch

SpecSettings == InitSettings /\ [][NextSettings]_vars

\* the settings read over every stored value
InitRead ==
    /\ ShellIdle
    /\ store \in {None} \cup {Some(v) : v \in JsonValues}
    /\ disk = store
    /\ osAutoLaunch = FALSE
    /\ cmd = NoCmd

NextRead == GetSettings

SpecRead == InitRead /\ [][NextRead]_vars

\* the process from run(): setup, then the event loop
InitStartup ==
    /\ win \in {w \in WinStates : w.exists}
    /\ running = TRUE
    /\ exitCode = -1
    /\ pending = [u \in Urls |-> 0]
    /\ last = [NoEvent EXCEPT !.pre = win]
    /\ setup = NotStarted
    /\ disp = Idle
    /\ store = None /\ disk = None /\ osAutoLaunch = FALSE /\ cmd = NoCmd

NextStartup ==
    \/ Setup
    \/ setup.pc = "running" /\ Next

SpecStartup == InitStartup /\ [][NextStartup]_vars

\* a tray toggle and a shortcut toggle dispatched together
InitDispatch ==
    /\ win \in {w \in WinStates : w.exists}
    /\ running = TRUE
    /\ exitCode = -1
    /\ pending = [u \in Urls |-> 0]
    /\ last = [NoEvent EXCEPT !.pre = win]
    /\ setup = Started
    /\ disp = [Idle EXCEPT !.start = win.visible]
    /\ store = None /\ disk = None /\ osAutoLaunch = FALSE /\ cmd = NoCmd

NextDispatch ==
    \E t \in Threads :
        \/ Dispatch(t)
        \/ ToggleQuery(t)
        \/ ToggleAct(t)

SpecDispatch == InitDispatch /\ [][NextDispatch]_vars

TypeOK ==
    /\ win \in WinStates
    /\ running \in BOOLEAN
    /\ exitCode \in {-1, 0, PanicStatus}
    /\ cmd.res.settings \in AppSettings

(***************************************************************************)
(* Properties                                                              *)
(***************************************************************************)
IsToggle(ev) ==
    \/ ev.src = "tray" /\ ev.id = "show_hide"
    \/ ev.src = "tray_icon" /\ ev.id = "Click" /\ ev.button = "Left" /\ ev.state = "Up"
    \/ ev.src = "shortcut" /\ ev.id = "KeyO" /\ ev.mods = {"SUPER", "SHIFT"}
        /\ ev.state = "Pressed"

\* C1: a toggle (tray "show_hide", tray icon left click, Super+Shift+O) that
\* meets no OS failure first queries the window's visibility and acts on what
\* the window is at that moment: handled while the window is hidden it leaves
\* the window visible and focused, handled while it is visible it leaves it
\* hidden, whatever happened to the window before.
C1_ToggleOnActualVisibility ==
    (IsToggle(last) /\ last.pre.exists /\ last.failed = {}) =>
        /\ last.calls[1] = "is_visible"
        /\ last.pre.visible => (~win.visible /\ last.calls = <<"is_visible", "hide">>)
        /\ ~last.pre.visible =>
            (win.visible /\ win.focused
                /\ last.calls = <<"is_visible", "show", "set_focus">>)

\* a tray "show_hide" click found the window hidden and showed it
C1_Witness ==
    /\ last.src = "tray" /\ last.id = "show_hide"
    /\ last.pre.exists /\ ~last.pre.visible /\ last.failed = {}
    /\ win.visible /\ win.focused

Count(calls, name) == Cardinality({i \in 1..Len(calls) : calls[i] = name})

QuickAddTask == [event |-> "quick-add-task", payload |-> ""]

\* C2: Super+Shift+T pressed while the window is hidden, with no OS failure,
\* leaves the window visible and focused and delivers "quick-add-task" to the
\* UI exactly once; and no handler run emits more than one UI event.
C2_QuickAddOnce ==
    /\ (/\ last.src = "shortcut" /\ last.id = "KeyT" /\ last.mods = {"SUPER", "SHIFT"}
        /\ last.state = "Pressed"
        /\ last.pre.exists /\ ~last.pre.visible /\ last.failed = {}) =>
            (win.visible /\ win.focused /\ last.emits = <<QuickAddTask>>)
    /\ Count(last.calls, "emit") <= 1
    /\ Len(last.emits) <= 1

\* Super+Shift+T found the window hidden, raised it and delivered the event
C2_Witness ==
    /\ last.src = "shortcut" /\ last.id = "KeyT" /\ last.state = "Pressed"
    /\ ~last.pre.visible /\ last.failed = {}
    /\ win.visible /\ win.focused /\ last.emits = <<QuickAddTask>>

\* the events that carry a Navigate or a QuickAddTask action
IsNavigateOrQuickAdd(ev) ==
    \/ ev.src = "tray" /\ ev.id \in {"new_task", "today", "calendar", "settings"}
    \/ ev.src = "menu" /\ ev.id \in {"new_task", "today_view", "calendar_view", "settings"}
    \/ ev.src = "shortcut" /\ ev.id = "KeyT" /\ ev.mods = {"SUPER", "SHIFT"}
        /\ ev.state = "Pressed"

\* C3: every Navigate and QuickAddTask handler, from the tray menu, the
\* application menu or the shortcut, calls show and set_focus on the window
\* before it emits its event; no "navigate" or "quick-add-task" event is
\* emitted by a handler that has not shown and focused the window first.
C3_ShowFocusBeforeEmit ==
    (IsNavigateOrQuickAdd(last) /\ last.pre.exists) =>
        \A i \in 1..Len(last.calls) :
            last.calls[i] = "emit" =>
                \E j, k \in 1..Len(last.calls) :
                    j < k /\ k < i /\ last.calls[j] = "show" /\ last.calls[k] = "set_focus"

\* C4: the application-menu item "reload" calls eval with the reload script
\* and nothing else: no show, hide or set_focus, no named event, and the
\* window's visibility and focus are what they were, visible or hidden.
C4_ReloadKeepsWindow ==
    (last.src = "menu" /\ last.id = "reload" /\ last.pre.exists) =>
        /\ last.calls = <<"eval">>
        /\ win = last.pre
        /\ last.emits = <<>>
        /\ last.failed = {} => last.evals = <<"window.location.reload()">>

\* "reload" was selected while the window was hidden: the UI got the reload
\* script and the window is still hidden
C4_Witness ==
    /\ last.src = "menu" /\ last.id = "reload"
    /\ last.pre.exists /\ ~last.pre.visible
    /\ last.evals = <<"window.location.reload()">>
    /\ ~win.visible

IsShortcut(ev, sc) ==
    ev.src = "shortcut" /\ ev.id = sc.key /\ ev.mods = sc.mods /\ ev.state = "Pressed"

NoAction(ev) ==
    /\ ev.calls = <<>> /\ ev.emits = <<>> /\ ev.evals = <<>>
    /\ win = ev.pre
    /\ running /\ exitCode = -1

\* C9: the shortcut adapter maps Super+Shift+O to the toggle, Super+Shift+T
\* to show-focus-and-quick-add-task and Super+Shift+F to start-focus-mode;
\* an identifier outside an adapter's recognized set (tray menu, application
\* menu, shortcut) produces no action: no call is made, the window is
\* unchanged, nothing is emitted and the process keeps running.
C9_AdapterTotality ==
    /\ (IsShortcut(last, toggle_shortcut) /\ last.pre.exists) =>
            (last.calls[1] = "is_visible" /\ last.emits = <<>>)
    /\ (IsShortcut(last, new_task_shortcut) /\ last.pre.exists) =>
            (/\ last.calls = <<"show", "set_focus", "emit">>
             /\ "emit" \notin last.failed => last.emits = <<QuickAddTask>>)
    /\ (IsShortcut(last, focus_shortcut) /\ last.pre.exists) =>
            (/\ last.calls = <<"emit">>
             /\ "emit" \notin last.failed =>
                    last.emits = <<[event |-> "start-focus-mode", payload |-> ""]>>)
    /\ (last.src = "tray" /\ last.id \notin TrayIds) => NoAction(last)
    /\ (last.src = "menu" /\ last.id \notin MenuIds) => NoAction(last)
    /\ (/\ last.src = "shortcut"
        /\ Shortcut(last.mods, last.id)
              \notin {toggle_shortcut, new_task_shortcut, focus_shortcut}) =>
            NoAction(last)

\* Super+O without Shift was pressed while the window was visible: nothing happened
C9_Witness ==
    /\ last.src = "shortcut" /\ last.id = "KeyO" /\ last.mods = {"SUPER"}
    /\ last.state = "Pressed"
    /\ last.pre.visible /\ win.visible /\ last.calls = <<>>

\* the handlers that show and focus the window
IsShowFocus(ev) ==
    \/ ev.src = "tray" /\ ev.id \in {"new_task", "today", "calendar", "settings"}
    \/ IsShortcut(ev, new_task_shortcut)

\* C10 as stated: of two show-and-focus handlers run in succession on the
\* window, each leaves the window visible, and the second makes no call on
\* the window other than set_focus (and the emission of its event): no
\* second show on a window that is already visible.
C10_SecondShowIsFocusOnly ==
    [][(IsShowFocus(last) /\ last.pre.exists /\ IsShowFocus(last')) =>
            /\ win.visible /\ win'.visible
            /\ \A i \in 1..Len(last'.calls) : last'.calls[i] \in {"set_focus", "emit"}]_vars

\* C10 (amended): of two show-and-focus handlers run in succession on the
\* window with no OS failure, each leaves the window visible and focused;
\* the second calls show and set_focus again, then emits, and leaves the
\* window as the first left it: it never hides the window.
C10_ShowFocusIdempotent ==
    [][(/\ IsShowFocus(last) /\ last.pre.exists /\ last.failed = {}
        /\ IsShowFocus(last') /\ last'.failed = {}) =>
            /\ win.visible /\ win.focused
            /\ last'.calls = <<"show", "set_focus", "emit">>
            /\ win' = win]_vars

\* a show-and-focus handler ran on a window that was already visible and
\* focused: it called show once more and the window is still visible
C10_Witness ==
    /\ IsShowFocus(last) /\ last.failed = {}
    /\ last.pre.visible /\ last.pre.focused
    /\ Count(last.calls, "show") = 1
    /\ win.visible /\ win.focused

\* C5: when set_auto_launch(enabled) meets a failing enable or disable call,
\* the caller gets an error and the OS registration is what it was; and a
\* get_auto_launch() that follows it, its query succeeding, returns the
\* OS's registration, not the value that was requested.
C5_FailedSetAutoLaunch ==
    /\ (cmd.name = "set_auto_launch" /\ cmd.failed # {}) =>
            (~cmd.res.ok /\ osAutoLaunch = cmd.preAl)
    /\ (/\ cmd.name = "get_auto_launch" /\ cmd.failed = {}
        /\ cmd.prev.name = "set_auto_launch" /\ ~cmd.prev.ok) =>
            (cmd.res.ok /\ cmd.res.bool = osAutoLaunch /\ osAutoLaunch = cmd.preAl)

\* set_auto_launch(true) failed while the OS had no registration, and the
\* get_auto_launch() after it returned false
C5_Witness ==
    /\ cmd.name = "get_auto_launch" /\ cmd.res.ok /\ ~cmd.res.bool
    /\ cmd.prev.name = "set_auto_launch" /\ ~cmd.prev.ok /\ cmd.prev.enabled
    /\ ~osAutoLaunch

\* C6: after a set_settings that succeeds, the OS's auto-launch registration
\* equals the autoLaunch value that was saved (the write registers or
\* unregisters when the two differ).
C6_SettingsWriteReconciles ==
    (cmd.name = "set_settings" /\ cmd.res.ok) =>
        osAutoLaunch = cmd.settings.auto_launch

\* the stored value is missing, or it is there and does not deserialize
Missing == ~store.some
Corrupted == store.some /\ ~from_value(store.value).ok

\* C7 as stated: with the stored value missing or corrupted, get_settings()
\* returns Ok with the default of every field and never an error.
C7_DefaultsNeverError ==
    (cmd.name = "get_settings" /\ (Missing \/ Corrupted)) =>
        (cmd.res.ok /\ cmd.res.settings = AppSettingsDefault)

\* C7 (amended): with the stored value missing or corrupted, get_settings()
\* returns Ok with the default of every field (theme "", the three flags
\* false) whenever the store opens; the one error it returns is the failure
\* to open the store.
C7_DefaultsUnlessStoreFails ==
    (cmd.name = "get_settings" /\ (Missing \/ Corrupted)) =>
        IF "store" \in cmd.failed
        THEN ~cmd.res.ok /\ cmd.res.err = "Failed to open store"
        ELSE /\ cmd.res.ok
             /\ cmd.res.settings.theme = ""
             /\ ~cmd.res.settings.auto_launch
             /\ ~cmd.res.settings.minimize_to_tray
             /\ ~cmd.res.settings.global_shortcuts_enabled

\* the store holds an object whose theme is not a string: the read succeeded
\* with the defaults
C7_Witness ==
    /\ cmd.name = "get_settings" /\ cmd.res.ok
    /\ Corrupted /\ store.value.k = "object"
    /\ "theme" \in DOMAIN store.value.o
    /\ cmd.res.settings = AppSettingsDefault

\* the value a well-typed stored field stands for
FieldValue(f, v) == IF f = "theme" THEN v.s ELSE v.b

\* C8: on a read of a stored object, a field whose value cannot be parsed
\* takes its default and every other field keeps its stored value: each
\* field stored with a value of its type is returned with that value.
C8_OnlyBadFieldDegrades ==
    (cmd.name = "get_settings" /\ cmd.res.ok /\ store.some /\ store.value.k = "object") =>
        \A f \in DOMAIN store.value.o \cap FieldNames :
            store.value.o[f].t = FieldType(f) =>
                cmd.res.settings[f] = FieldValue(f, store.value.o[f])

AllShortcuts == {toggle_shortcut, new_task_shortcut, focus_shortcut}

RegisterCall(sc) ==
    CASE sc = toggle_shortcut   -> "register_toggle"
      [] sc = new_task_shortcut -> "register_new_task"
      [] sc = focus_shortcut    -> "register_focus"

\* C11: when the OS rejects the registration of one of the three shortcuts
\* at startup (the tray and the menu having been created), the bindings it
\* does not reject are registered all the same and startup goes on: setup
\* does not abort and the process runs.
C11_RegistrationFailureIsNotFatal ==
    (/\ setup.pc # "init"
     /\ setup.made = {"tray", "menu"}
     /\ setup.rejected # {}) =>
        /\ setup.registered = {sc \in AllShortcuts : RegisterCall(sc) \notin setup.rejected}
        /\ setup.pc = "running"
        /\ running

IsHandler(ev) == ev.src \in {"tray", "tray_icon", "menu", "shortcut"}

IsQuit(ev) == ev.src = "tray" /\ ev.id = "quit"

\* C12: the tray item "quit" ends the process at once with status 0, and
\* that is the one way the process ends: a process that has ended was ended
\* by "quit" with status 0, "quit" makes no call on the window and emits
\* nothing, and after it no event changes anything.
C12_QuitIsTerminal ==
    /\ [](IsQuit(last) =>
            (/\ ~running /\ exitCode = 0
             /\ last.calls = <<"exit">> /\ last.emits = <<>> /\ win = last.pre))
    /\ [](~running => (IsQuit(last) /\ exitCode = 0))
    /\ [](running => exitCode = -1)
    /\ [][~running => UNCHANGED vars]_vars

\* "quit" was selected while the window was visible: the process has ended with status 0
C12_Witness ==
    /\ IsQuit(last) /\ ~running /\ exitCode = 0
    /\ last.pre.visible /\ win.visible

\* C14: when show or hide fails inside a handler, the handler still runs to
\* its end (set_focus and emit are still called after a failed show), the
\* process keeps running and the window's visibility is what it was before
\* the attempt.
C14_ShowHideFailureSwallowed ==
    (IsHandler(last) /\ last.failed \cap {"show", "hide"} # {}) =>
        /\ running /\ exitCode = -1
        /\ win.visible = last.pre.visible
        /\ "show" \in last.failed =>
                \E i \in 1..Len(last.calls) : last.calls[i] = "set_focus"
        /\ (IsShowFocus(last) /\ "show" \in last.failed) =>
                last.calls = <<"show", "set_focus", "emit">>

\* Super+Shift+O found the window hidden and show failed: the window is
\* still hidden and the process runs
C14_Witness ==
    /\ IsShortcut(last, toggle_shortcut)
    /\ ~last.pre.visible /\ "show" \in last.failed
    /\ ~win.visible /\ running

\* C15: when the visibility query fails during a toggle, the process keeps
\* running and the toggle takes the not-visible branch: it calls show and
\* set_focus and never hide, whatever the window's real visibility; and
\* every toggle starts with a query of its own.
C15_QueryFailureShows ==
    /\ (IsToggle(last) /\ last.pre.exists /\ "is_visible" \in last.failed) =>
            /\ running
            /\ last.calls = <<"is_visible", "show", "set_focus">>
            /\ "show" \notin last.failed => win.visible
    /\ (IsToggle(last) /\ last.pre.exists) => last.calls[1] = "is_visible"

\* a toggle on a visible window whose query failed: show was called and the
\* window is still visible
C15_Witness ==
    /\ IsToggle(last) /\ last.pre.visible
    /\ last.failed = {"is_visible"}
    /\ win.visible /\ Count(last.calls, "hide") = 0

\* C16: a Released event of a shortcut makes no call, changes no window
\* state and emits nothing; with the Pressed event that precedes it, the
\* pair runs the shortcut's action once.
C16_ReleasedDoesNothing ==
    /\ (last.src = "shortcut" /\ last.state = "Released") => NoAction(last)
    /\ (IsShortcut(last, toggle_shortcut) /\ last.pre.exists) =>
            Count(last.calls, "is_visible") = 1
    /\ (IsShortcut(last, new_task_shortcut) /\ last.pre.exists) =>
            Count(last.calls, "emit") = 1
    /\ (IsShortcut(last, focus_shortcut) /\ last.pre.exists) =>
            Count(last.calls, "emit") = 1

\* Super+Shift+O was released while the window was visible: nothing was called
C16_Witness ==
    /\ last.src = "shortcut" /\ last.id = "KeyO" /\ last.mods = {"SUPER", "SHIFT"}
    /\ last.state = "Released"
    /\ last.pre.visible /\ win.visible /\ last.calls = <<>>

StartFocusMode == [event |-> "start-focus-mode", payload |-> ""]

\* C17: Super+Shift+F emits "start-focus-mode" and makes no other call: the
\* window's visibility and focus are what they were, a hidden window stays
\* hidden.
C17_FocusModeKeepsWindow ==
    (IsShortcut(last, focus_shortcut) /\ last.pre.exists) =>
        /\ last.calls = <<"emit">>
        /\ win = last.pre
        /\ "emit" \notin last.failed => last.emits = <<StartFocusMode>>

\* Super+Shift+F was pressed while the window was hidden: the event was
\* delivered and the window is still hidden
C17_Witness ==
    /\ IsShortcut(last, focus_shortcut)
    /\ last.pre.exists /\ ~last.pre.visible
    /\ last.emits = <<StartFocusMode>> /\ ~win.visible

\* the events that act on the window
IsWindowDirected(ev) ==
    \/ ev.src = "tray" /\ ev.id \in TrayIds \ {"quit"}
    \/ ev.src = "tray_icon"
    \/ ev.src = "menu" /\ ev.id \in MenuIds \ {"documentation", "report_issue"}
    \/ ev.src = "shortcut"

\* C18: with no main window attached, every window-directed event of every
\* adapter (toggle, show-and-focus, navigate, quick-add-task,
\* start-focus-mode, reload) does nothing: no call, no event, no script,
\* and the process keeps running.
C18_NoWindowNoOp ==
    (IsWindowDirected(last) /\ ~last.pre.exists) =>
        (NoAction(last) /\ last.failed = {})

\* the tray item "calendar" was selected with the window destroyed
C18_Witness ==
    /\ last.src = "tray" /\ last.id = "calendar"
    /\ ~last.pre.exists /\ last.calls = <<>> /\ running

\* C20: the tray and shortcut handlers of QuickAddTask and Navigate call
\* emit once whatever show and set_focus returned: when show or set_focus
\* fails the event is still emitted once, so it can reach the UI while the
\* window is hidden.
C20_EmitDespiteShowFailure ==
    (IsShowFocus(last) /\ last.pre.exists) =>
        /\ Count(last.calls, "emit") = 1
        /\ last.calls[Len(last.calls)] = "emit"
        /\ "emit" \notin last.failed => Len(last.emits) = 1

\* the tray item "settings" was selected while the window was hidden and
\* show failed: "navigate" was delivered and the window is hidden
C20_Witness ==
    /\ last.src = "tray" /\ last.id = "settings"
    /\ ~last.pre.visible /\ "show" \in last.failed
    /\ last.emits = <<[event |-> "navigate", payload |-> "/app/settings"]>>
    /\ ~win.visible

SaveFailed(c) == c.name = "set_settings" /\ "save" \in c.failed

\* C19: when the save of set_settings fails, the caller gets an error and
\* the store keeps the new value, which was set before the save; a
\* get_settings() that follows it in the same process, the store opening,
\* returns the new settings, not the ones last saved.
C19_FailedSaveKeepsNewValue ==
    /\ SaveFailed(cmd) =>
            /\ ~cmd.res.ok /\ cmd.res.err = "Failed to save settings"
            /\ store = Some(to_value(cmd.settings))
    /\ (cmd.name = "get_settings" /\ cmd.failed = {} /\ SaveFailed(cmd.prev)) =>
            (cmd.res.ok /\ cmd.res.settings = cmd.prev.settings)

\* the save of dark-theme settings failed over a file that holds other
\* settings, and the get_settings() after it returned the dark theme
C19_Witness ==
    /\ cmd.name = "get_settings" /\ cmd.res.ok
    /\ SaveFailed(cmd.prev) /\ ~cmd.prev.ok
    /\ cmd.res.settings.theme = "dark"
    /\ disk # store
    /\ disk.some => from_value(disk.value).val.theme # "dark"

AllDone == \A t \in Threads : disp.thr[t].pc = "done"

NoFailure == \A t \in Threads : disp.thr[t].failed = {}

\* C13: of two toggles dispatched together, one from the tray and one from
\* the shortcut, the query and the act of one never have the query of the
\* other between them; with no OS failure, the two together leave the
\* window's visibility what it was when they were dispatched.
C13_TogglesAreAtomic ==
    /\ ~(\A t \in Threads : disp.thr[t].pc = "queried")
    /\ (AllDone /\ NoFailure) => win.visible = disp.start

\* the handlers run one after the other give the same window as the
\* query and the act applied in turn
ToggleSplitAgrees ==
    \A w \in {x \in WinStates : x.exists}, F \in SUBSET ToggleCalls :
        /\ shortcut_toggle(w, F).win = toggle_act(w, toggle_query(w, F), F).win
        /\ tray_show_hide(w, F).win = toggle_act(w, toggle_query(w, F), F).win
        /\ tray_icon_toggle(w, F).win = toggle_act(w, toggle_query(w, F), F).win

IsLeftUp(ev) ==
    ev.src = "tray_icon" /\ ev.id = "Click" /\ ev.button = "Left" /\ ev.state = "Up"

\* C21: a tray icon event toggles the window only when it is a click of the
\* Left button in the Up state: that event queries the visibility once and,
\* meeting no failure, inverts it; every other tray icon event (another
\* button, the Down state, a double click, enter, move, leave) makes no
\* call, leaves visibility and focus as they were and emits nothing.
C21_OnlyLeftUpToggles ==
    /\ (IsLeftUp(last) /\ last.pre.exists) =>
            /\ Count(last.calls, "is_visible") = 1
            /\ Count(last.calls, "show") + Count(last.calls, "hide") = 1
            /\ last.emits = <<>>
            /\ last.failed = {} => win.visible = ~last.pre.visible
    /\ (last.src = "tray_icon" /\ ~IsLeftUp(last)) => NoAction(last)

\* the Left button went down on the tray icon while the window was
\* visible: nothing was called and the window is still visible
C21_Witness ==
    /\ last.src = "tray_icon" /\ last.id = "Click"
    /\ last.button = "Left" /\ last.state = "Down"
    /\ last.pre.visible /\ win.visible /\ last.calls = <<>>

====
